---- MODULE Spec2Model ----
(***************************************************************************)
(* A model of the CSV hand-off scripts of the ctbal repository:            *)
(*   scripts/ctbal-scrape-integration.py   (script "integration")          *)
(*   scripts/add-all-new-csvs.py           (script "add_all")              *)
(*   scripts/add-processed-csvs-to-queue.py (script "add_processed")       *)
(* A Python str is modelled as a sequence of one-character strings, so     *)
(* that split, endswith, substring containment, glob matching, lower()     *)
(* and sorted() are computed character by character as the code does.      *)
(***************************************************************************)
EXTENDS Integers, Sequences, FiniteSets, TLC

(***************************************************************************)
(* Bounds of the model.                                                    *)
(***************************************************************************)
\* the root directory holds at most this many of the files of FileUniverse
MaxFiles ==
    3
\* the external npm commands exit with a status in 0..MaxExit
MaxExit ==
    1

(***************************************************************************)
(* Characters and strings.                                                 *)
(***************************************************************************)
\* the characters '0'..'9' (code points 48..57)
Digits ==
    <<"0","1","2","3","4","5","6","7","8","9">>

\* the characters 'A'..'Z' (code points 65..90)
UpperCase ==
    <<"A","B","C","D","E","F","G","H","I","J","K","L","M",
      "N","O","P","Q","R","S","T","U","V","W","X","Y","Z">>

\* the characters 'a'..'z' (code points 97..122)
LowerCase ==
    <<"a","b","c","d","e","f","g","h","i","j","k","l","m",
      "n","o","p","q","r","s","t","u","v","w","x","y","z">>

\* the position of c in the table t, 0 if absent
IndexIn(t, c) ==
    IF \E k \in 1..Len(t) : t[k] = c THEN CHOOSE k \in 1..Len(t) : t[k] = c ELSE 0

\* the characters that occur in the file names and tables
Chars ==
    {Digits[k] : k \in 1..Len(Digits)} \cup {UpperCase[k] : k \in 1..Len(UpperCase)}
        \cup {LowerCase[k] : k \in 1..Len(LowerCase)} \cup {" ", ",", ".", "_"}

\* the code point of each character
OrdTable ==
    [c \in Chars |->
        CASE IndexIn(Digits, c) > 0 -> 47 + IndexIn(Digits, c)
          [] IndexIn(UpperCase, c) > 0 -> 64 + IndexIn(UpperCase, c)
          [] IndexIn(LowerCase, c) > 0 -> 96 + IndexIn(LowerCase, c)
          [] c = " " -> 32
          [] c = "," -> 44
          [] c = "." -> 46
          [] c = "_" -> 95]

\* ord(c)
Ord(c) ==
    OrdTable[c]

\* str.lower() of each character: 'A'..'Z' map to 'a'..'z', the rest is kept
LowerTable ==
    [c \in Chars |-> IF IndexIn(UpperCase, c) > 0 THEN LowerCase[IndexIn(UpperCase, c)] ELSE c]

\* str.lower() on one character
LowerChar(c) ==
    LowerTable[c]

\* str.lower()
Lower(s) ==
    [k \in 1..Len(s) |-> LowerChar(s[k])]

\* s.startswith(p)
StartsWith(s, p) ==
    Len(s) >= Len(p) /\ SubSeq(s, 1, Len(p)) = p

\* s.endswith(p)
EndsWith(s, p) ==
    Len(s) >= Len(p) /\ SubSeq(s, Len(s) - Len(p) + 1, Len(s)) = p

\* p in s  (substring containment)
Contains(s, p) ==
    \E k \in 0..(Len(s) - Len(p)) : SubSeq(s, k + 1, k + Len(p)) = p

\* c in s for a single character c
HasChar(s, c) ==
    \E k \in 1..Len(s) : s[k] = c

\* s.split(c)[0]: the text before the first c, the whole of s if c is absent
SplitFirst(s, c) ==
    IF HasChar(s, c)
    THEN SubSeq(s, 1, (CHOOSE k \in 1..Len(s) : s[k] = c /\ \A j \in 1..(k - 1) : s[j] # c) - 1)
    ELSE s

\* Python's str comparison a < b: lexicographic by code point
StrLess(a, b) ==
    \/ /\ Len(a) < Len(b)
       /\ SubSeq(b, 1, Len(a)) = a
    \/ \E k \in 1..(IF Len(a) < Len(b) THEN Len(a) ELSE Len(b)) :
          /\ SubSeq(a, 1, k - 1) = SubSeq(b, 1, k - 1)
          /\ Ord(a[k]) < Ord(b[k])

\* sorted(S) for a collection S of distinct strings
Sorted(S) ==
    CHOOSE q \in [1..Cardinality(S) -> S] :
        \A a, b \in 1..Cardinality(S) : a < b => StrLess(q[a], q[b])

\* the number of positions of the list q that hold x
Count(q, x) ==
    Cardinality({k \in 1..Len(q) : q[k] = x})

\* the elements of the list q
ToSet(q) ==
    {q[k] : k \in 1..Len(q)}

\* the lists that hold every element of S exactly once, in any order
Orders(S) ==
    {q \in [1..Cardinality(S) -> S] : \A a, b \in 1..Cardinality(S) : q[a] = q[b] => a = b}


(***************************************************************************)
(* Configuration and tables of the scripts.                                *)
(***************************************************************************)
\* ctbal-scrape-integration.py: the directory that is scanned
SCRAPE_A_GRAVE_PATH ==
    "c:/Users/djman/OneDrive/Documents/GitHub/scrape-a-grave"

\* ctbal-scrape-integration.py: the working directory of the npm commands
CTBAL_PROJECT_PATH ==
    "c:/Users/djman/OneDrive/Documents/GitHub/ctbal"

\* add-processed-csvs-to-queue.py: the directory that is listed
processed_csvs_path ==
    "c:/Users/djman/OneDrive/Documents/GitHub/scrape-a-grave/processed_csvs"

\* add-all-new-csvs.py: the directory that is globbed (local of main)
processed_csvs_dir ==
    "C:/Users/djman/OneDrive/Documents/GitHub/scrape-a-grave/processed_csvs"

\* the states table of add-all-new-csvs.py
states_all ==
    << [abbreviation |-> <<"A","L">>, name |-> <<"A","l","a","b","a","m","a">>, location_id |-> "state_3"],
       [abbreviation |-> <<"A","K">>, name |-> <<"A","l","a","s","k","a">>, location_id |-> "state_2"],
       [abbreviation |-> <<"A","Z">>, name |-> <<"A","r","i","z","o","n","a">>, location_id |-> "state_5"],
       [abbreviation |-> <<"A","R">>, name |-> <<"A","r","k","a","n","s","a","s">>, location_id |-> "state_4"],
       [abbreviation |-> <<"C","A">>, name |-> <<"C","a","l","i","f","o","r","n","i","a">>, location_id |-> "state_6"],
       [abbreviation |-> <<"C","O">>, name |-> <<"C","o","l","o","r","a","d","o">>, location_id |-> "state_7"],
       [abbreviation |-> <<"C","T">>, name |-> <<"C","o","n","n","e","c","t","i","c","u","t">>, location_id |-> "state_8"],
       [abbreviation |-> <<"D","E">>, name |-> <<"D","e","l","a","w","a","r","e">>, location_id |-> "state_10"],
       [abbreviation |-> <<"D","C">>, name |-> <<"D","i","s","t","r","i","c","t"," ","o","f"," ","C","o","l","u","m","b","i","a">>, location_id |-> "state_9"],
       [abbreviation |-> <<"F","L">>, name |-> <<"F","l","o","r","i","d","a">>, location_id |-> "state_11"],
       [abbreviation |-> <<"G","A">>, name |-> <<"G","e","o","r","g","i","a">>, location_id |-> "state_12"],
       [abbreviation |-> <<"H","I">>, name |-> <<"H","a","w","a","i","i">>, location_id |-> "state_13"],
       [abbreviation |-> <<"I","D">>, name |-> <<"I","d","a","h","o">>, location_id |-> "state_15"],
       [abbreviation |-> <<"I","L">>, name |-> <<"I","l","l","i","n","o","i","s">>, location_id |-> "state_16"],
       [abbreviation |-> <<"I","N">>, name |-> <<"I","n","d","i","a","n","a">>, location_id |-> "state_17"],
       [abbreviation |-> <<"I","A">>, name |-> <<"I","o","w","a">>, location_id |-> "state_14"],
       [abbreviation |-> <<"K","S">>, name |-> <<"K","a","n","s","a","s">>, location_id |-> "state_18"],
       [abbreviation |-> <<"K","Y">>, name |-> <<"K","e","n","t","u","c","k","y">>, location_id |-> "state_19"],
       [abbreviation |-> <<"L","A">>, name |-> <<"L","o","u","i","s","i","a","n","a">>, location_id |-> "state_20"],
       [abbreviation |-> <<"M","E">>, name |-> <<"M","a","i","n","e">>, location_id |-> "state_22"],
       [abbreviation |-> <<"M","D">>, name |-> <<"M","a","r","y","l","a","n","d">>, location_id |-> "state_23"],
       [abbreviation |-> <<"M","A">>, name |-> <<"M","a","s","s","a","c","h","u","s","e","t","t","s">>, location_id |-> "state_21"],
       [abbreviation |-> <<"M","I">>, name |-> <<"M","i","c","h","i","g","a","n">>, location_id |-> "state_24"],
       [abbreviation |-> <<"M","N">>, name |-> <<"M","i","n","n","e","s","o","t","a">>, location_id |-> "state_25"],
       [abbreviation |-> <<"M","S">>, name |-> <<"M","i","s","s","i","s","s","i","p","p","i">>, location_id |-> "state_27"],
       [abbreviation |-> <<"M","O">>, name |-> <<"M","i","s","s","o","u","r","i">>, location_id |-> "state_26"],
       [abbreviation |-> <<"M","T">>, name |-> <<"M","o","n","t","a","n","a">>, location_id |-> "state_28"],
       [abbreviation |-> <<"N","E">>, name |-> <<"N","e","b","r","a","s","k","a">>, location_id |-> "state_31"],
       [abbreviation |-> <<"N","V">>, name |-> <<"N","e","v","a","d","a">>, location_id |-> "state_35"],
       [abbreviation |-> <<"N","H">>, name |-> <<"N","e","w"," ","H","a","m","p","s","h","i","r","e">>, location_id |-> "state_32"],
       [abbreviation |-> <<"N","J">>, name |-> <<"N","e","w"," ","J","e","r","s","e","y">>, location_id |-> "state_33"],
       [abbreviation |-> <<"N","M">>, name |-> <<"N","e","w"," ","M","e","x","i","c","o">>, location_id |-> "state_34"],
       [abbreviation |-> <<"N","Y">>, name |-> <<"N","e","w"," ","Y","o","r","k">>, location_id |-> "state_36"],
       [abbreviation |-> <<"N","C">>, name |-> <<"N","o","r","t","h"," ","C","a","r","o","l","i","n","a">>, location_id |-> "state_29"],
       [abbreviation |-> <<"N","D">>, name |-> <<"N","o","r","t","h"," ","D","a","k","o","t","a">>, location_id |-> "state_30"],
       [abbreviation |-> <<"O","H">>, name |-> <<"O","h","i","o">>, location_id |-> "state_37"],
       [abbreviation |-> <<"O","K">>, name |-> <<"O","k","l","a","h","o","m","a">>, location_id |-> "state_38"],
       [abbreviation |-> <<"O","R">>, name |-> <<"O","r","e","g","o","n">>, location_id |-> "state_39"],
       [abbreviation |-> <<"P","A">>, name |-> <<"P","e","n","n","s","y","l","v","a","n","i","a">>, location_id |-> "state_40"],
       [abbreviation |-> <<"P","R">>, name |-> <<"P","u","e","r","t","o"," ","R","i","c","o">>, location_id |-> "state_41"],
       [abbreviation |-> <<"R","I">>, name |-> <<"R","h","o","d","e"," ","I","s","l","a","n","d">>, location_id |-> "state_42"],
       [abbreviation |-> <<"S","C">>, name |-> <<"S","o","u","t","h"," ","C","a","r","o","l","i","n","a">>, location_id |-> "state_43"],
       [abbreviation |-> <<"S","D">>, name |-> <<"S","o","u","t","h"," ","D","a","k","o","t","a">>, location_id |-> "state_44"],
       [abbreviation |-> <<"T","N">>, name |-> <<"T","e","n","n","e","s","s","e","e">>, location_id |-> "state_45"],
       [abbreviation |-> <<"T","X">>, name |-> <<"T","e","x","a","s">>, location_id |-> "state_46"],
       [abbreviation |-> <<"U","T">>, name |-> <<"U","t","a","h">>, location_id |-> "state_47"],
       [abbreviation |-> <<"V","T">>, name |-> <<"V","e","r","m","o","n","t">>, location_id |-> "state_49"],
       [abbreviation |-> <<"V","I">>, name |-> <<"V","i","r","g","i","n"," ","I","s","l","a","n","d","s",","," ","U",".","S",".">>, location_id |-> "country_273"],
       [abbreviation |-> <<"V","A">>, name |-> <<"V","i","r","g","i","n","i","a">>, location_id |-> "state_48"],
       [abbreviation |-> <<"W","A">>, name |-> <<"W","a","s","h","i","n","g","t","o","n">>, location_id |-> "state_50"],
       [abbreviation |-> <<"W","V">>, name |-> <<"W","e","s","t"," ","V","i","r","g","i","n","i","a">>, location_id |-> "state_52"],
       [abbreviation |-> <<"W","I">>, name |-> <<"W","i","s","c","o","n","s","i","n">>, location_id |-> "state_51"],
       [abbreviation |-> <<"W","Y">>, name |-> <<"W","y","o","m","i","n","g">>, location_id |-> "state_53"],
       [abbreviation |-> <<"N","Y","C">>, name |-> <<"N","e","w"," ","Y","o","r","k"," ","C","i","t","y">>, location_id |-> "state_56"],
       [abbreviation |-> <<"A","S">>, name |-> <<"A","m","e","r","i","c","a","n"," ","S","a","m","o","a">>, location_id |-> "state_57"],
       [abbreviation |-> <<"G","U">>, name |-> <<"G","u","a","m">>, location_id |-> "state_58"],
       [abbreviation |-> <<"M","P">>, name |-> <<"N","o","r","t","h","e","r","n"," ","M","a","r","i","a","n","a"," ","I","s","l","a","n","d","s">>, location_id |-> "state_59"],
       [abbreviation |-> <<"U","M">>, name |-> <<"U","n","i","t","e","d"," ","S","t","a","t","e","s"," ","M","i","n","o","r"," ","O","u","t","l","y","i","n","g"," ","I","s","l","a","n","d","s">>, location_id |-> "state_61"] >>

\* the states table of add-processed-csvs-to-queue.py
states_processed ==
    << [abbreviation |-> <<"A","L">>, name |-> <<"A","l","a","b","a","m","a">>, location_id |-> "state_3"],
       [abbreviation |-> <<"A","K">>, name |-> <<"A","l","a","s","k","a">>, location_id |-> "state_2"],
       [abbreviation |-> <<"A","Z">>, name |-> <<"A","r","i","z","o","n","a">>, location_id |-> "state_5"],
       [abbreviation |-> <<"A","R">>, name |-> <<"A","r","k","a","n","s","a","s">>, location_id |-> "state_4"],
       [abbreviation |-> <<"C","A">>, name |-> <<"C","a","l","i","f","o","r","n","i","a">>, location_id |-> "state_6"],
       [abbreviation |-> <<"C","O">>, name |-> <<"C","o","l","o","r","a","d","o">>, location_id |-> "state_7"],
       [abbreviation |-> <<"C","T">>, name |-> <<"C","o","n","n","e","c","t","i","c","u","t">>, location_id |-> "state_8"],
       [abbreviation |-> <<"D","E">>, name |-> <<"D","e","l","a","w","a","r","e">>, location_id |-> "state_10"],
       [abbreviation |-> <<"D","C">>, name |-> <<"D","i","s","t","r","i","c","t"," ","o","f"," ","C","o","l","u","m","b","i","a">>, location_id |-> "state_9"],
       [abbreviation |-> <<"F","L">>, name |-> <<"F","l","o","r","i","d","a">>, location_id |-> "state_11"],
       [abbreviation |-> <<"G","A">>, name |-> <<"G","e","o","r","g","i","a">>, location_id |-> "state_12"],
       [abbreviation |-> <<"H","I">>, name |-> <<"H","a","w","a","i","i">>, location_id |-> "state_13"],
       [abbreviation |-> <<"I","D">>, name |-> <<"I","d","a","h","o">>, location_id |-> "state_15"],
       [abbreviation |-> <<"I","L">>, name |-> <<"I","l","l","i","n","o","i","s">>, location_id |-> "state_16"],
       [abbreviation |-> <<"I","N">>, name |-> <<"I","n","d","i","a","n","a">>, location_id |-> "state_17"],
       [abbreviation |-> <<"I","A">>, name |-> <<"I","o","w","a">>, location_id |-> "state_14"],
       [abbreviation |-> <<"K","S">>, name |-> <<"K","a","n","s","a","s">>, location_id |-> "state_18"],
       [abbreviation |-> <<"K","Y">>, name |-> <<"K","e","n","t","u","c","k","y">>, location_id |-> "state_19"],
       [abbreviation |-> <<"L","A">>, name |-> <<"L","o","u","i","s","i","a","n","a">>, location_id |-> "state_20"],
       [abbreviation |-> <<"M","E">>, name |-> <<"M","a","i","n","e">>, location_id |-> "state_22"] >>

\* the state_patterns dict of extract_state_from_filename, in insertion order
state_patterns ==
    << [pattern |-> <<"a","l","a","b","a","m","a">>, state_name |-> <<"A","l","a","b","a","m","a">>],
       [pattern |-> <<"a","l","a","s","k","a">>, state_name |-> <<"A","l","a","s","k","a">>],
       [pattern |-> <<"a","r","i","z","o","n","a">>, state_name |-> <<"A","r","i","z","o","n","a">>],
       [pattern |-> <<"a","r","k","a","n","s","a","s">>, state_name |-> <<"A","r","k","a","n","s","a","s">>],
       [pattern |-> <<"c","a","l","i","f","o","r","n","i","a">>, state_name |-> <<"C","a","l","i","f","o","r","n","i","a">>],
       [pattern |-> <<"c","o","l","o","r","a","d","o">>, state_name |-> <<"C","o","l","o","r","a","d","o">>],
       [pattern |-> <<"c","o","n","n","e","c","t","i","c","u","t">>, state_name |-> <<"C","o","n","n","e","c","t","i","c","u","t">>],
       [pattern |-> <<"d","e","l","a","w","a","r","e">>, state_name |-> <<"D","e","l","a","w","a","r","e">>],
       [pattern |-> <<"f","l","o","r","i","d","a">>, state_name |-> <<"F","l","o","r","i","d","a">>],
       [pattern |-> <<"g","e","o","r","g","i","a">>, state_name |-> <<"G","e","o","r","g","i","a">>],
       [pattern |-> <<"h","a","w","a","i","i">>, state_name |-> <<"H","a","w","a","i","i">>],
       [pattern |-> <<"i","d","a","h","o">>, state_name |-> <<"I","d","a","h","o">>],
       [pattern |-> <<"i","l","l","i","n","o","i","s">>, state_name |-> <<"I","l","l","i","n","o","i","s">>],
       [pattern |-> <<"i","n","d","i","a","n","a">>, state_name |-> <<"I","n","d","i","a","n","a">>],
       [pattern |-> <<"i","o","w","a">>, state_name |-> <<"I","o","w","a">>],
       [pattern |-> <<"k","a","n","s","a","s">>, state_name |-> <<"K","a","n","s","a","s">>],
       [pattern |-> <<"k","e","n","t","u","c","k","y">>, state_name |-> <<"K","e","n","t","u","c","k","y">>],
       [pattern |-> <<"l","o","u","i","s","i","a","n","a">>, state_name |-> <<"L","o","u","i","s","i","a","n","a">>],
       [pattern |-> <<"m","a","i","n","e">>, state_name |-> <<"M","a","i","n","e">>],
       [pattern |-> <<"m","a","r","y","l","a","n","d">>, state_name |-> <<"M","a","r","y","l","a","n","d">>],
       [pattern |-> <<"m","a","s","s","a","c","h","u","s","e","t","t","s">>, state_name |-> <<"M","a","s","s","a","c","h","u","s","e","t","t","s">>],
       [pattern |-> <<"m","i","c","h","i","g","a","n">>, state_name |-> <<"M","i","c","h","i","g","a","n">>],
       [pattern |-> <<"m","i","n","n","e","s","o","t","a">>, state_name |-> <<"M","i","n","n","e","s","o","t","a">>],
       [pattern |-> <<"m","i","s","s","i","s","s","i","p","p","i">>, state_name |-> <<"M","i","s","s","i","s","s","i","p","p","i">>],
       [pattern |-> <<"m","i","s","s","o","u","r","i">>, state_name |-> <<"M","i","s","s","o","u","r","i">>],
       [pattern |-> <<"m","o","n","t","a","n","a">>, state_name |-> <<"M","o","n","t","a","n","a">>],
       [pattern |-> <<"n","e","b","r","a","s","k","a">>, state_name |-> <<"N","e","b","r","a","s","k","a">>],
       [pattern |-> <<"n","e","v","a","d","a">>, state_name |-> <<"N","e","v","a","d","a">>],
       [pattern |-> <<"n","e","w","h","a","m","p","s","h","i","r","e">>, state_name |-> <<"N","e","w"," ","H","a","m","p","s","h","i","r","e">>],
       [pattern |-> <<"n","e","w","j","e","r","s","e","y">>, state_name |-> <<"N","e","w"," ","J","e","r","s","e","y">>],
       [pattern |-> <<"n","e","w","m","e","x","i","c","o">>, state_name |-> <<"N","e","w"," ","M","e","x","i","c","o">>],
       [pattern |-> <<"n","e","w","y","o","r","k">>, state_name |-> <<"N","e","w"," ","Y","o","r","k">>],
       [pattern |-> <<"n","o","r","t","h","c","a","r","o","l","i","n","a">>, state_name |-> <<"N","o","r","t","h"," ","C","a","r","o","l","i","n","a">>],
       [pattern |-> <<"n","o","r","t","h","d","a","k","o","t","a">>, state_name |-> <<"N","o","r","t","h"," ","D","a","k","o","t","a">>],
       [pattern |-> <<"o","h","i","o">>, state_name |-> <<"O","h","i","o">>],
       [pattern |-> <<"o","k","l","a","h","o","m","a">>, state_name |-> <<"O","k","l","a","h","o","m","a">>],
       [pattern |-> <<"o","r","e","g","o","n">>, state_name |-> <<"O","r","e","g","o","n">>],
       [pattern |-> <<"p","e","n","n","s","y","l","v","a","n","i","a">>, state_name |-> <<"P","e","n","n","s","y","l","v","a","n","i","a">>],
       [pattern |-> <<"r","h","o","d","e","i","s","l","a","n","d">>, state_name |-> <<"R","h","o","d","e"," ","I","s","l","a","n","d">>],
       [pattern |-> <<"s","o","u","t","h","c","a","r","o","l","i","n","a">>, state_name |-> <<"S","o","u","t","h"," ","C","a","r","o","l","i","n","a">>],
       [pattern |-> <<"s","o","u","t","h","d","a","k","o","t","a">>, state_name |-> <<"S","o","u","t","h"," ","D","a","k","o","t","a">>],
       [pattern |-> <<"t","e","n","n","e","s","s","e","e">>, state_name |-> <<"T","e","n","n","e","s","s","e","e">>],
       [pattern |-> <<"t","e","x","a","s">>, state_name |-> <<"T","e","x","a","s">>],
       [pattern |-> <<"u","t","a","h">>, state_name |-> <<"U","t","a","h">>],
       [pattern |-> <<"v","e","r","m","o","n","t">>, state_name |-> <<"V","e","r","m","o","n","t">>],
       [pattern |-> <<"v","i","r","g","i","n","i","a">>, state_name |-> <<"V","i","r","g","i","n","i","a">>],
       [pattern |-> <<"w","a","s","h","i","n","g","t","o","n">>, state_name |-> <<"W","a","s","h","i","n","g","t","o","n">>],
       [pattern |-> <<"w","e","s","t","v","i","r","g","i","n","i","a">>, state_name |-> <<"W","e","s","t"," ","V","i","r","g","i","n","i","a">>],
       [pattern |-> <<"w","i","s","c","o","n","s","i","n">>, state_name |-> <<"W","i","s","c","o","n","s","i","n">>],
       [pattern |-> <<"w","y","o","m","i","n","g">>, state_name |-> <<"W","y","o","m","i","n","g">>] >>

\* the literal "Unknown" returned by extract_state_from_filename
Unknown ==
    <<"U","n","k","n","o","w","n">>

\* the literal 'UNK' of add-all-new-csvs.py
UNK ==
    <<"U","N","K">>

\* the glob patterns of find_state_csv_files; each has one '*', written here
\* as the text before it and the text after it
patterns ==
    << [pre |-> <<"u","s","_","r","e","c","e","n","t","_","d","e","a","t","h","s","_">>, suf |-> <<".","c","s","v">>],
       [pre |-> <<>>, suf |-> <<"_","d","e","a","t","h","s",".","c","s","v">>],
       [pre |-> <<"d","e","a","t","h","s","_">>, suf |-> <<".","c","s","v">>],
       [pre |-> <<"m","o","r","t","a","l","i","t","y","_">>, suf |-> <<".","c","s","v">>],
       [pre |-> <<>>, suf |-> <<"_","m","o","r","t","a","l","i","t","y",".","c","s","v">>] >>

\* the glob pattern "*.csv" of add-all-new-csvs.py
csv_pattern ==
    [pre |-> <<>>, suf |-> <<".","c","s","v">>]

\* the text '_us_recent_deaths.csv' tested by add-processed-csvs-to-queue.py
RecentDeathsSuffix ==
    <<"_","u","s","_","r","e","c","e","n","t","_","d","e","a","t","h","s",".","c","s","v">>

\* the text '.csv' tested by add-processed-csvs-to-queue.py
CsvSuffix ==
    <<".","c","s","v">>

(***************************************************************************)
(* The file names a root directory may hold.                               *)
(***************************************************************************)
\* FL_20251118_210521_us_recent_deaths.csv
FL_RECENT ==
    <<"F","L","_","2","0","2","5","1","1","1","8","_","2","1","0","5","2","1","_","u","s","_","r","e","c","e","n","t","_","d","e","a","t","h","s",".","c","s","v">>

\* TX_us_recent_deaths.csv
TX_RECENT ==
    <<"T","X","_","u","s","_","r","e","c","e","n","t","_","d","e","a","t","h","s",".","c","s","v">>

\* TX_deaths.csv
TX_DEATHS ==
    <<"T","X","_","d","e","a","t","h","s",".","c","s","v">>

\* deaths_westvirginia_mortality.csv
WV_BOTH ==
    <<"d","e","a","t","h","s","_","w","e","s","t","v","i","r","g","i","n","i","a","_","m","o","r","t","a","l","i","t","y",".","c","s","v">>

\* mystery_export.csv
MYSTERY_EXPORT ==
    <<"m","y","s","t","e","r","y","_","e","x","p","o","r","t",".","c","s","v">>

\* mystery.csv
MYSTERY ==
    <<"m","y","s","t","e","r","y",".","c","s","v">>

\* notes.txt
NOTES ==
    <<"n","o","t","e","s",".","t","x","t">>

FileUniverse ==
    {FL_RECENT, TX_RECENT, TX_DEATHS, WV_BOTH, MYSTERY_EXPORT, MYSTERY, NOTES}

(***************************************************************************)
(* Paths (the directory separators of the configured paths are written     *)
(* with '/'; no operation of the model looks inside a directory name).     *)
(***************************************************************************)
\* os.path.abspath(f) after os.chdir(root), and os.path.join(root, f)
Join(root, f) ==
    [dir |-> root, name |-> f]

\* Path(p).name and os.path.basename(p)
Basename(p) ==
    p.name

\* Path(p).stem: the name without its last suffix; a leading or a trailing
\* dot starts no suffix
Stem(p) ==
    LET n == Basename(p)
        dots == {k \in 2..(Len(n) - 1) : n[k] = "."}
    IN  IF dots = {} THEN n
        ELSE SubSeq(n, 1, (CHOOSE k \in dots : \A j \in dots : j <= k) - 1)

\* fnmatch of a name against a pattern pre*suf as glob.glob applies it: both
\* sides go through os.path.normcase (lower-casing on the Windows hosts the
\* configured paths belong to), and a name with a leading dot is hidden
GlobMatch(pat, name) ==
    /\ Len(name) >= Len(pat.pre) + Len(pat.suf)
    /\ StartsWith(Lower(name), Lower(pat.pre))
    /\ EndsWith(Lower(name), Lower(pat.suf))
    /\ name[1] # "."

\* glob.glob(pattern) in a directory holding the names dir; the listing order
\* is the file system's, every use in the scripts goes through set() or
\* sorted(), so the sorted list stands for it
Glob(dir, pat) ==
    Sorted({f \in dir : GlobMatch(pat, f)})

(***************************************************************************)
(* ctbal-scrape-integration.py                                             *)
(***************************************************************************)
RECURSIVE ExtendMatches(_, _)
\* csv_files after the loop over patterns[1..k]: csv_files.extend(matches)
ExtendMatches(dir, k) ==
    IF k = 0 THEN <<>> ELSE ExtendMatches(dir, k - 1) \o Glob(dir, patterns[k])

\* find_state_csv_files without line 31: the raw list, one entry per match
FindStateCsvFilesNoDedup(dir) ==
    LET csv_files == ExtendMatches(dir, Len(patterns))
    IN  {[k \in 1..Len(csv_files) |-> Join(SCRAPE_A_GRAVE_PATH, csv_files[k])]}

\* find_state_csv_files: the lists it may return. list(set(csv_files)) holds
\* every matched name once, in the iteration order of a set of str, which
\* depends on the per-process hash seed: any order is possible
FindStateCsvFiles(dir) ==
    LET csv_files == ExtendMatches(dir, Len(patterns))
    IN  {[k \in 1..Len(unique_files) |-> Join(SCRAPE_A_GRAVE_PATH, unique_files[k])] :
            unique_files \in Orders(ToSet(csv_files))}

\* extract_state_from_filename with the last contained key winning
ExtractStateFromFilenameLastKey(filename) ==
    LET basename == Lower(Stem(filename))
        hits == {k \in 1..Len(state_patterns) : Contains(basename, state_patterns[k].pattern)}
    IN  IF hits = {} THEN Unknown
        ELSE state_patterns[CHOOSE k \in hits : \A j \in hits : k >= j].state_name

\* extract_state_from_filename: the value of the first key of state_patterns
\* contained in the lower-cased stem, "Unknown" if there is none
ExtractStateFromFilename(filename) ==
    LET basename == Lower(Stem(filename))
        hits == {k \in 1..Len(state_patterns) : Contains(basename, state_patterns[k].pattern)}
    IN  IF hits = {} THEN Unknown
        ELSE state_patterns[CHOOSE k \in hits : \A j \in hits : k <= j].state_name

\* what subprocess.run may do: raise, or return a CompletedProcess with an
\* exit status
RunOutcomes ==
    {[raised |-> FALSE, returncode |-> r] : r \in 0..MaxExit}
        \cup {[raised |-> TRUE, returncode |-> -1]}

\* transfer_csv_to_queue with "returncode >= 0" for "returncode == 0"
TransferCsvToQueueAnyExit(run) ==
    [raised |-> FALSE, value |-> ~run.raised /\ run.returncode >= 0]

\* transfer_csv_to_queue: what the call does for an outcome of subprocess.run;
\* the except clause turns a raise into the return value False
TransferCsvToQueue(run) ==
    [raised |-> FALSE, value |-> ~run.raised /\ run.returncode = 0]

\* Branch with status and process exchanged in the 'full' branch
BranchFullSwapped(command) ==
    CASE command = <<"t","r","a","n","s","f","e","r">> -> <<"transfer">>
      [] command = <<"s","t","a","t","u","s">> -> <<"status">>
      [] command = <<"p","r","o","c","e","s","s">> -> <<"process">>
      [] command = <<"f","u","l","l">> -> <<"transfer", "process", "status">>
      [] OTHER -> <<>>

\* the sub-commands main() runs for a lower-cased argument, in order
Branch(command) ==
    CASE command = <<"t","r","a","n","s","f","e","r">> -> <<"transfer">>
      [] command = <<"s","t","a","t","u","s">> -> <<"status">>
      [] command = <<"p","r","o","c","e","s","s">> -> <<"process">>
      [] command = <<"f","u","l","l">> -> <<"transfer", "status", "process">>
      [] OTHER -> <<>>

(***************************************************************************)
(* add-all-new-csvs.py                                                     *)
(***************************************************************************)
\* add_csv_to_queue: as transfer_csv_to_queue, the exception is caught
AddCsvToQueue(run) ==
    [raised |-> FALSE, value |-> ~run.raised /\ run.returncode = 0]

\* line 121: filename.split('_')[0] if '_' in filename else 'UNK'
StateAbbrevAll(filename) ==
    IF HasChar(filename, "_") THEN SplitFirst(filename, "_") ELSE UNK

(***************************************************************************)
(* add-processed-csvs-to-queue.py                                          *)
(***************************************************************************)
\* lines 43-45: the names of the listing that pass the filter
ProcessedCsvFiles(dir) ==
    {file \in dir : EndsWith(file, CsvSuffix) /\ Contains(file, RecentDeathsSuffix)}

\* lines 53-57: state_name for a file name
StateNameProcessed(csv_file) ==
    LET state_abbrev == SplitFirst(csv_file, "_")
        found == {k \in 1..Len(states_processed) : states_processed[k].abbreviation = state_abbrev}
    IN  IF found = {} THEN state_abbrev
        ELSE states_processed[CHOOSE k \in found : \A j \in found : k <= j].name

(***************************************************************************)
(* The state of one run of one script.                                     *)
(***************************************************************************)
VARIABLES
    script,         \* which script runs: "integration", "add_all", "add_processed"
    argv,           \* sys.argv[1:], the arguments after the script name
    rootExists,     \* whether the configured root directory exists
    dir,            \* the file names in the root directory
    pc,             \* position: "main", "run", "loop", "done", "crashed"
    pending,        \* integration main(): the calls of the chosen branch still to make
    csv_files,      \* the list the batch loop iterates over
    idx,            \* the position of the loop in csv_files
    success_count,  \* success_count / added_count
    failed_count,   \* failed_count of add-all-new-csvs.py
    cmds,           \* the subprocess.run calls made so far, with their outcomes
    results,        \* the outcome recorded for each file the loop has handled
    resolved,       \* the state computed for a file, each time one is computed
    invoked,        \* integration main(): the functions it has called
    summary,        \* <<>>, or the one summary printed
    printed         \* the other messages printed, as tags

vars ==
    <<script, argv, rootExists, dir, pc, pending, csv_files, idx, success_count,
      failed_count, cmds, results, resolved, invoked, summary, printed>>

config ==
    <<script, argv, rootExists, dir>>

\* the command-line arguments tried
ArgUniverse ==
    { <<>>,
      << <<"t","r","a","n","s","f","e","r">> >>,
      << <<"s","t","a","t","u","s">> >>,
      << <<"p","r","o","c","e","s","s">> >>,
      << <<"f","u","l","l">> >>,
      << <<"S","T","A","T","U","S">> >>,
      << <<"b","o","g","u","s">> >> }

Scripts ==
    {"integration", "add_all", "add_processed"}

Init ==
    /\ script \in Scripts
    /\ argv \in (IF script = "integration" THEN ArgUniverse ELSE {<<>>})
    /\ rootExists \in BOOLEAN
    /\ dir \in (IF rootExists
                THEN {d \in SUBSET FileUniverse : Cardinality(d) <= MaxFiles}
                ELSE {{}})
    /\ pc = "main"
    /\ pending = <<>>
    /\ csv_files = <<>>
    /\ idx = 0
    /\ success_count = 0
    /\ failed_count = 0
    /\ cmds = <<>>
    /\ results = <<>>
    /\ resolved = <<>>
    /\ invoked = <<>>
    /\ summary = <<>>
    /\ printed = <<>>

\* the position after the call at the head of pending has returned to main()
AfterReturn ==
    IF Tail(pending) = <<>> THEN "done" ELSE "run"

(***************************************************************************)
(* ctbal-scrape-integration.py                                             *)
(***************************************************************************)
\* main() with the full pipeline as the default when no argument is given
MainDefaultFull ==
    /\ script = "integration"
    /\ pc = "main"
    /\ LET command == IF Len(argv) > 0 THEN Lower(argv[1]) ELSE <<"f","u","l","l">>
       IN  /\ pending' = Branch(command)
           /\ pc' = IF Branch(command) = <<>> THEN "done" ELSE "run"
           /\ printed' = IF Branch(command) = <<>>
                         THEN Append(printed, "unknown_command")
                         ELSE IF Len(Branch(command)) > 1
                              THEN Append(printed, "full_pipeline")
                              ELSE printed
    /\ UNCHANGED <<config, csv_files, idx, success_count, failed_count, cmds,
                   results, resolved, invoked, summary>>

\* main(): the choice of the branch from sys.argv
Main ==
    /\ script = "integration"
    /\ pc = "main"
    /\ IF Len(argv) > 0
       THEN LET command == Lower(argv[1])
            IN  /\ pending' = Branch(command)
                /\ pc' = IF Branch(command) = <<>> THEN "done" ELSE "run"
                /\ printed' = IF Branch(command) = <<>>
                              THEN Append(printed, "unknown_command")
                              ELSE IF Len(Branch(command)) > 1
                                   THEN Append(printed, "full_pipeline")
                                   ELSE printed
       ELSE /\ pending' = <<>>
            /\ pc' = "done"
            /\ printed' = Append(printed, "usage")
    /\ UNCHANGED <<config, csv_files, idx, success_count, failed_count, cmds,
                   results, resolved, invoked, summary>>

\* batch_transfer_all_csvs() up to the loop: find_state_csv_files(), whose
\* os.chdir raises when the directory is missing; the return on an empty
\* list; the listing of every file with its state
BatchTransferAllCsvs ==
    /\ script = "integration"
    /\ pc = "run"
    /\ Head(pending) = "transfer"
    /\ invoked' = Append(invoked, "batch_transfer_all_csvs")
    /\ IF ~rootExists
       THEN /\ pc' = "crashed"
            /\ printed' = Append(printed, "FileNotFoundError")
            /\ UNCHANGED <<pending, csv_files, idx, success_count, resolved>>
       ELSE \E files \in FindStateCsvFiles(dir) :
              /\ csv_files' = files
              /\ IF files = <<>>
                 THEN /\ printed' = Append(printed, "no_csv_files")
                      /\ pending' = Tail(pending)
                      /\ pc' = AfterReturn
                      /\ UNCHANGED <<idx, success_count, resolved>>
                 ELSE /\ printed' = Append(printed, "found")
                      /\ resolved' = resolved \o
                            [k \in 1..Len(files) |->
                                [file |-> files[k], state |-> ExtractStateFromFilename(files[k])]]
                      /\ idx' = 1
                      /\ success_count' = 0
                      /\ pc' = "loop"
                      /\ UNCHANGED pending
    /\ UNCHANGED <<config, failed_count, cmds, results, summary>>

\* one iteration of the loop of batch_transfer_all_csvs():
\* transfer_csv_to_queue(csv_file) and the count
TransferStep ==
    /\ script = "integration"
    /\ pc = "loop"
    /\ idx <= Len(csv_files)
    /\ \E run \in RunOutcomes :
          LET csv_file == csv_files[idx]
              ret == TransferCsvToQueue(run)
          IN  /\ cmds' = Append(cmds, [cmd |-> "queue:add", arg |-> <<csv_file>>,
                                       cwd |-> CTBAL_PROJECT_PATH, run |-> run])
              /\ IF ret.raised
                 THEN /\ pc' = "crashed"
                      /\ UNCHANGED <<idx, success_count, results, resolved>>
                 ELSE /\ results' = Append(results, [file |-> csv_file, ok |-> ret.value])
                      /\ success_count' = IF ret.value THEN success_count + 1 ELSE success_count
                      /\ resolved' = IF ~run.raised /\ run.returncode = 0
                                     THEN Append(resolved, [file |-> csv_file,
                                              state |-> ExtractStateFromFilename(csv_file)])
                                     ELSE resolved
                      /\ idx' = idx + 1
                      /\ UNCHANGED pc
    /\ UNCHANGED <<config, pending, csv_files, failed_count, invoked, summary, printed>>

\* the end of batch_transfer_all_csvs(): the summary
TransferSummary ==
    /\ script = "integration"
    /\ pc = "loop"
    /\ idx > Len(csv_files)
    /\ summary' = << [succeeded |-> success_count,
                      failed |-> Len(csv_files) - success_count,
                      total |-> Len(csv_files)] >>
    /\ pending' = Tail(pending)
    /\ pc' = AfterReturn
    /\ UNCHANGED <<config, csv_files, idx, success_count, failed_count, cmds,
                   results, resolved, invoked, printed>>

\* show_queue_status(): main() ignores what it returns
ShowQueueStatus ==
    /\ script = "integration"
    /\ pc = "run"
    /\ Head(pending) = "status"
    /\ \E run \in RunOutcomes :
          cmds' = Append(cmds, [cmd |-> "queue:status", arg |-> <<>>,
                                cwd |-> CTBAL_PROJECT_PATH, run |-> run])
    /\ invoked' = Append(invoked, "show_queue_status")
    /\ pending' = Tail(pending)
    /\ pc' = AfterReturn
    /\ UNCHANGED <<config, csv_files, idx, success_count, failed_count, results,
                   resolved, summary, printed>>

\* process_queue(): main() ignores what it returns
ProcessQueue ==
    /\ script = "integration"
    /\ pc = "run"
    /\ Head(pending) = "process"
    /\ \E run \in RunOutcomes :
          cmds' = Append(cmds, [cmd |-> "queue:process-all", arg |-> <<>>,
                                cwd |-> CTBAL_PROJECT_PATH, run |-> run])
    /\ invoked' = Append(invoked, "process_queue")
    /\ pending' = Tail(pending)
    /\ pc' = AfterReturn
    /\ UNCHANGED <<config, csv_files, idx, success_count, failed_count, results,
                   resolved, summary, printed>>

(***************************************************************************)
(* add-all-new-csvs.py                                                     *)
(***************************************************************************)
\* main() up to the loop: glob.glob finds nothing in a missing directory and
\* raises nothing; the loop runs over sorted(csv_files), full paths under one
\* directory, which sort as their names do
AddAllMain ==
    /\ script = "add_all"
    /\ pc = "main"
    /\ LET found == Glob(dir, csv_pattern)
           ordered == Sorted(ToSet(found))
       IN  csv_files' = [k \in 1..Len(ordered) |-> Join(processed_csvs_dir, ordered[k])]
    /\ printed' = Append(printed, "found")
    /\ idx' = 1
    /\ success_count' = 0
    /\ failed_count' = 0
    /\ pc' = "loop"
    /\ UNCHANGED <<config, pending, cmds, results, resolved, invoked, summary>>

\* the loop of main() with a call that was raised left out of both counts
AddAllStepDropRaised ==
    /\ script = "add_all"
    /\ pc = "loop"
    /\ idx <= Len(csv_files)
    /\ \E run \in RunOutcomes :
          LET csv_file == csv_files[idx]
              filename == Basename(csv_file)
              state_abbrev == StateAbbrevAll(filename)
              ret == AddCsvToQueue(run)
          IN  /\ resolved' = Append(resolved, [file |-> csv_file, state |-> state_abbrev])
              /\ cmds' = Append(cmds, [cmd |-> "queue:add", arg |-> <<csv_file>>,
                                       cwd |-> "os.getcwd()", run |-> run])
              /\ IF run.raised
                 THEN UNCHANGED <<success_count, failed_count, results>>
                 ELSE /\ results' = Append(results, [file |-> csv_file, ok |-> ret.value])
                      /\ success_count' = IF ret.value THEN success_count + 1 ELSE success_count
                      /\ failed_count' = IF ret.value THEN failed_count ELSE failed_count + 1
              /\ idx' = idx + 1
    /\ UNCHANGED <<config, pc, pending, csv_files, invoked, summary, printed>>

\* the loop of main() with a file of no registered abbreviation passed over
AddAllStepSkipUnknown ==
    /\ script = "add_all"
    /\ pc = "loop"
    /\ idx <= Len(csv_files)
    /\ \E run \in RunOutcomes :
          LET csv_file == csv_files[idx]
              filename == Basename(csv_file)
              state_abbrev == StateAbbrevAll(filename)
              ret == AddCsvToQueue(run)
          IN  /\ resolved' = Append(resolved, [file |-> csv_file, state |-> state_abbrev])
              /\ IF \A k \in 1..Len(states_all) : states_all[k].abbreviation # state_abbrev
                 THEN UNCHANGED <<cmds, success_count, failed_count, results>>
                 ELSE /\ cmds' = Append(cmds, [cmd |-> "queue:add", arg |-> <<csv_file>>,
                                               cwd |-> "os.getcwd()", run |-> run])
                      /\ results' = Append(results, [file |-> csv_file, ok |-> ret.value])
                      /\ success_count' = IF ret.value THEN success_count + 1 ELSE success_count
                      /\ failed_count' = IF ret.value THEN failed_count ELSE failed_count + 1
              /\ idx' = idx + 1
    /\ UNCHANGED <<config, pc, pending, csv_files, invoked, summary, printed>>

\* one iteration of the loop of main()
AddAllStep ==
    /\ script = "add_all"
    /\ pc = "loop"
    /\ idx <= Len(csv_files)
    /\ \E run \in RunOutcomes :
          LET csv_file == csv_files[idx]
              filename == Basename(csv_file)
              state_abbrev == StateAbbrevAll(filename)
              ret == AddCsvToQueue(run)
          IN  /\ resolved' = Append(resolved, [file |-> csv_file, state |-> state_abbrev])
              /\ cmds' = Append(cmds, [cmd |-> "queue:add", arg |-> <<csv_file>>,
                                       cwd |-> "os.getcwd()", run |-> run])
              /\ IF ret.raised
                 THEN /\ pc' = "crashed"
                      /\ UNCHANGED <<idx, success_count, failed_count, results>>
                 ELSE /\ results' = Append(results, [file |-> csv_file, ok |-> ret.value])
                      /\ success_count' = IF ret.value THEN success_count + 1 ELSE success_count
                      /\ failed_count' = IF ret.value THEN failed_count ELSE failed_count + 1
                      /\ idx' = idx + 1
                      /\ UNCHANGED pc
    /\ UNCHANGED <<config, pending, csv_files, invoked, summary, printed>>

\* the end of main(): the summary
AddAllSummary ==
    /\ script = "add_all"
    /\ pc = "loop"
    /\ idx > Len(csv_files)
    /\ summary' = << [succeeded |-> success_count,
                      failed |-> failed_count,
                      total |-> success_count + failed_count] >>
    /\ pc' = "done"
    /\ UNCHANGED <<config, pending, csv_files, idx, success_count, failed_count,
                   cmds, results, resolved, invoked, printed>>

(***************************************************************************)
(* add-processed-csvs-to-queue.py                                          *)
(***************************************************************************)
\* add_processed_csvs_to_queue() up to the loop: the check of the directory,
\* the filtered listing; the loop runs over sorted(csv_files), bare names
AddProcessedMain ==
    /\ script = "add_processed"
    /\ pc = "main"
    /\ IF ~rootExists
       THEN /\ printed' = Append(printed, "directory_not_found")
            /\ pc' = "done"
            /\ UNCHANGED <<csv_files, idx, success_count>>
       ELSE /\ csv_files' = Sorted(ProcessedCsvFiles(dir))
            /\ printed' = Append(printed, "found")
            /\ idx' = 1
            /\ success_count' = 0
            /\ pc' = "loop"
    /\ UNCHANGED <<config, pending, failed_count, cmds, results, resolved, invoked, summary>>

\* the loop without its try block: what subprocess.run raises ends the run
AddProcessedStepNoTry ==
    /\ script = "add_processed"
    /\ pc = "loop"
    /\ idx <= Len(csv_files)
    /\ \E run \in RunOutcomes :
          LET csv_file == csv_files[idx]
              csv_full_path == Join(processed_csvs_path, csv_file)
              ok == ~run.raised /\ run.returncode = 0
          IN  /\ resolved' = Append(resolved, [file |-> csv_file,
                                               state |-> StateNameProcessed(csv_file)])
              /\ cmds' = Append(cmds, [cmd |-> "queue:add", arg |-> <<csv_full_path>>,
                                       cwd |-> CTBAL_PROJECT_PATH, run |-> run])
              /\ IF run.raised
                 THEN /\ pc' = "crashed"
                      /\ UNCHANGED <<results, success_count, idx>>
                 ELSE /\ results' = Append(results, [file |-> csv_file, ok |-> ok])
                      /\ success_count' = IF ok THEN success_count + 1 ELSE success_count
                      /\ idx' = idx + 1
                      /\ UNCHANGED pc
    /\ UNCHANGED <<config, pending, csv_files, failed_count, invoked, summary, printed>>

\* one iteration of the loop: the try block, whose except clause catches
\* what subprocess.run raises
AddProcessedStep ==
    /\ script = "add_processed"
    /\ pc = "loop"
    /\ idx <= Len(csv_files)
    /\ \E run \in RunOutcomes :
          LET csv_file == csv_files[idx]
              csv_full_path == Join(processed_csvs_path, csv_file)
              ok == ~run.raised /\ run.returncode = 0
          IN  /\ resolved' = Append(resolved, [file |-> csv_file,
                                               state |-> StateNameProcessed(csv_file)])
              /\ cmds' = Append(cmds, [cmd |-> "queue:add", arg |-> <<csv_full_path>>,
                                       cwd |-> CTBAL_PROJECT_PATH, run |-> run])
              /\ results' = Append(results, [file |-> csv_file, ok |-> ok])
              /\ success_count' = IF ok THEN success_count + 1 ELSE success_count
              /\ idx' = idx + 1
    /\ UNCHANGED <<config, pc, pending, csv_files, failed_count, invoked, summary, printed>>

\* the end of add_processed_csvs_to_queue(): the summary
AddProcessedSummary ==
    /\ script = "add_processed"
    /\ pc = "loop"
    /\ idx > Len(csv_files)
    /\ summary' = << [succeeded |-> success_count,
                      failed |-> Len(csv_files) - success_count,
                      total |-> Len(csv_files)] >>
    /\ pc' = "done"
    /\ UNCHANGED <<config, pending, csv_files, idx, success_count, failed_count,
                   cmds, results, resolved, invoked, printed>>

Next ==
    \/ Main
    \/ BatchTransferAllCsvs
    \/ TransferStep
    \/ TransferSummary
    \/ ShowQueueStatus
    \/ ProcessQueue
    \/ AddAllMain
    \/ AddAllStep
    \/ AddAllSummary
    \/ AddProcessedMain
    \/ AddProcessedStep
    \/ AddProcessedSummary

Spec ==
    Init /\ [][Next]_vars

TypeOK ==
    /\ pc \in {"main", "run", "loop", "done", "crashed"}
    /\ idx \in 0..(Len(csv_files) + 1)
    /\ success_count \in 0..Len(csv_files)
    /\ failed_count \in 0..Len(csv_files)
    /\ Len(summary) <= 1

(***************************************************************************)
(* Properties.                                                             *)
(***************************************************************************)
\* the arguments of the enqueue commands run so far, in order
Enqueued ==
    LET adds == SelectSeq(cmds, LAMBDA c : c.cmd = "queue:add")
    IN  [k \in 1..Len(adds) |-> adds[k].arg[1]]

\* the outcomes of the enqueue commands run so far, in order
EnqueueRuns ==
    LET adds == SelectSeq(cmds, LAMBDA c : c.cmd = "queue:add")
    IN  [k \in 1..Len(adds) |-> adds[k].run]

\* the path handed to the enqueue command for the k-th candidate
CandidatePath(k) ==
    IF script = "add_processed" THEN Join(processed_csvs_path, csv_files[k]) ELSE csv_files[k]

\* the file name of the k-th candidate
CandidateName(k) ==
    IF script = "add_processed" THEN csv_files[k] ELSE Basename(csv_files[k])

\* the run has ended, or the batch has printed its summary
BatchOver ==
    summary # <<>> \/ pc \in {"done", "crashed"}

\* the number of positions of results with the given outcome
CountOk(b) ==
    Cardinality({k \in 1..Len(results) : results[k].ok = b})

\* C1: whenever a batch reports its summary, one outcome has been recorded
\* per candidate file, succeeded + failed = total, total is the number of
\* candidates, and the two counts are the numbers of recorded successes and
\* failures
C1_SummaryAccountsForEveryFile ==
    summary # <<>> =>
        /\ Len(results) = Len(csv_files)
        /\ summary[1].succeeded + summary[1].failed = summary[1].total
        /\ summary[1].total = Len(csv_files)
        /\ summary[1].succeeded = CountOk(TRUE)
        /\ summary[1].failed = CountOk(FALSE)

\* C1 witness: three candidates, one enqueue that could not be started, and
\* the summary succeeded=2, failed=1, total=3
C1_Witness ==
    /\ summary = << [succeeded |-> 2, failed |-> 1, total |-> 3] >>
    /\ \E k \in 1..Len(cmds) : cmds[k].run.raised
    /\ Len(csv_files) = 3

\* C2: the enqueue attempts made so far are the candidates in loop order,
\* each once, with none skipped and none repeated, and once the batch is over
\* every candidate has had its attempt, whatever the earlier outcomes
C2_EveryFileAttemptedOnce ==
    /\ Len(Enqueued) <= Len(csv_files)
    /\ \A k \in 1..Len(Enqueued) : Enqueued[k] = CandidatePath(k)
    /\ \A k \in 1..Len(csv_files) : Count(Enqueued, CandidatePath(k)) <= 1
    /\ BatchOver => Len(Enqueued) = Len(csv_files)

\* C2 witness: the batch is over, the first file's enqueue could not be
\* started, the second exited non-zero and a third was still attempted
C2_Witness ==
    /\ BatchOver
    /\ Len(Enqueued) = 3
    /\ EnqueueRuns[1].raised
    /\ ~EnqueueRuns[2].raised /\ EnqueueRuns[2].returncode # 0

\* the patterns of find_state_csv_files a name matches
MatchingPatterns(f) ==
    {k \in 1..Len(patterns) : GlobMatch(patterns[k], f)}

\* the file names that match two or more of the patterns
OverlapFiles ==
    {f \in FileUniverse : Cardinality(MatchingPatterns(f)) >= 2}

\* C3: once find_state_csv_files has returned, a file of the root directory
\* that matches two or more patterns is in the list exactly once, under its
\* absolute path, and when the batch has ended it was enqueued exactly once
C3_OverlappingPatternsOnce ==
    (script = "integration" /\ pc \in {"loop", "run", "done"}
        /\ invoked # <<>> /\ invoked[1] = "batch_transfer_all_csvs") =>
        \A f \in dir \cap OverlapFiles :
            /\ Count(csv_files, Join(SCRAPE_A_GRAVE_PATH, f)) = 1
            /\ summary # <<>> => Count(Enqueued, Join(SCRAPE_A_GRAVE_PATH, f)) = 1

\* C3 witness: deaths_westvirginia_mortality.csv matches deaths_*.csv and
\* *_mortality.csv, and the batch over its directory has ended
C3_Witness ==
    /\ script = "integration"
    /\ WV_BOTH \in dir
    /\ MatchingPatterns(WV_BOTH) = {3, 5}
    /\ summary # <<>>
    /\ Count(Enqueued, Join(SCRAPE_A_GRAVE_PATH, WV_BOTH)) = 1

\* the file name of an entry of resolved
ResolvedName(r) ==
    IF script = "add_processed" THEN r.file ELSE Basename(r.file)

\* the entries of the full states table whose code, followed by '_', starts
\* the name
RegisteredPrefix(name) ==
    {k \in 1..Len(states_all) :
        StartsWith(name, Append(states_all[k].abbreviation, "_"))}

\* C4: every resolution of a name that begins with a registered code and '_'
\* gives that code's state, and every other resolution gives Unknown
C4_ResolveByPrefixCode ==
    \A k \in 1..Len(resolved) :
        LET name == ResolvedName(resolved[k])
        IN  IF RegisteredPrefix(name) # {}
            THEN \E j \in RegisteredPrefix(name) : resolved[k].state = states_all[j].name
            ELSE resolved[k].state = Unknown

\* C5: every enqueue call returns to the loop, and the outcome recorded for
\* it is a success exactly when the command was started and exited with 0
C5_OutcomeByExitStatus ==
    /\ pc = "crashed" => cmds = <<>>
    /\ Len(results) = Len(EnqueueRuns)
    /\ \A k \in 1..Len(results) :
          results[k].ok <=> (~EnqueueRuns[k].raised /\ EnqueueRuns[k].returncode = 0)

\* C5 witness: transfer_csv_to_queue has returned for an exit status 0, for
\* a non-zero exit status and for a command that could not be started
C5_Witness ==
    /\ script = "integration"
    /\ Len(results) = 3
    /\ \E a, b, c \in 1..3 :
          /\ ~EnqueueRuns[a].raised /\ EnqueueRuns[a].returncode = 0 /\ results[a].ok
          /\ ~EnqueueRuns[b].raised /\ EnqueueRuns[b].returncode # 0 /\ ~results[b].ok
          /\ EnqueueRuns[c].raised /\ ~results[c].ok

\* the run has tried to locate the candidate files
LocateTried ==
    \/ script # "integration" /\ pc # "main"
    \/ script = "integration" /\ invoked # <<>> /\ invoked[1] = "batch_transfer_all_csvs"

\* C6: when the root directory does not exist, a run that locates files
\* reports a failure of the locator, enqueues nothing and prints no summary
C6_MissingRootIsLocatorFailure ==
    (~rootExists /\ LocateTried) =>
        /\ Enqueued = <<>>
        /\ summary = <<>>
        /\ \E k \in 1..Len(printed) : printed[k] \in {"FileNotFoundError", "directory_not_found"}
        /\ \A k \in 1..Len(printed) : printed[k] \notin {"found", "no_csv_files"}

\* the calls of the 'full' branch, in order
FullCalls ==
    <<"batch_transfer_all_csvs", "show_queue_status", "process_queue">>

\* the run was started with the argument 'full'
IsFull ==
    script = "integration" /\ argv = << <<"f","u","l","l">> >>

\* the commands of the run other than the enqueue commands
OtherCmds ==
    LET others == SelectSeq(cmds, LAMBDA c : c.cmd # "queue:add")
    IN  [k \in 1..Len(others) |-> others[k].cmd]

C8_SortedDispatchOrder ==
    \A a, b \in 1..Len(Enqueued) :
        a < b => StrLess(Basename(Enqueued[a]), Basename(Enqueued[b]))

\* the four sub-command words
CommandWords ==
    { <<"t","r","a","n","s","f","e","r">>, <<"s","t","a","t","u","s">>,
      <<"p","r","o","c","e","s","s">>, <<"f","u","l","l">> }

\* what a run may do for a sub-command word w: the functions main() may
\* call and the commands that may be run
OwnActionsOnly(w) ==
    CASE w = <<"t","r","a","n","s","f","e","r">> ->
            /\ ToSet(invoked) \subseteq {"batch_transfer_all_csvs"}
            /\ \A k \in 1..Len(cmds) : cmds[k].cmd = "queue:add"
      [] w = <<"s","t","a","t","u","s">> ->
            /\ ToSet(invoked) \subseteq {"show_queue_status"}
            /\ \A k \in 1..Len(cmds) : cmds[k].cmd = "queue:status"
      [] w = <<"p","r","o","c","e","s","s">> ->
            /\ ToSet(invoked) \subseteq {"process_queue"}
            /\ \A k \in 1..Len(cmds) : cmds[k].cmd = "queue:process-all"
      [] w = <<"f","u","l","l">> ->
            ToSet(invoked) \subseteq ToSet(FullCalls)
      [] OTHER ->
            invoked = <<>> /\ cmds = <<>>

\* a run without finding, enqueueing, status or process-all
NothingInvoked ==
    invoked = <<>> /\ cmds = <<>> /\ csv_files = <<>>

\* C9 as stated: without an argument the tool prints usage and invokes
\* nothing; with an argument that is not one of the four words it prints an
\* error and invokes nothing; with one of the four words only that
\* sub-command's actions are invoked
C9_OnlyTheFourWordsAct ==
    script = "integration" =>
        /\ argv = <<>> =>
              /\ NothingInvoked
              /\ pc = "done" => printed = <<"usage">>
        /\ (argv # <<>> /\ argv[1] \notin CommandWords) =>
              /\ NothingInvoked
              /\ pc = "done" => printed = <<"unknown_command">>
        /\ (argv # <<>> /\ argv[1] \in CommandWords) => OwnActionsOnly(argv[1])

\* C9 amended: as stated, with the argument compared after lower-casing: an
\* argument whose lower-cased form is not one of the four words prints an
\* error and invokes nothing, and an argument whose lower-cased form is one
\* of them (STATUS, say) invokes that sub-command's actions and only those
C9_OnlyRecognisedCommandsAct ==
    script = "integration" =>
        /\ argv = <<>> =>
              /\ NothingInvoked
              /\ pc = "done" => printed = <<"usage">>
        /\ (argv # <<>> /\ Lower(argv[1]) \notin CommandWords) =>
              /\ NothingInvoked
              /\ pc = "done" => printed = <<"unknown_command">>
        /\ (argv # <<>> /\ Lower(argv[1]) \in CommandWords) => OwnActionsOnly(Lower(argv[1]))

\* C9 witness: the run with the argument 'bogus' has ended with the error
\* message and nothing invoked
C9_Witness ==
    /\ script = "integration"
    /\ argv = << <<"b","o","g","u","s">> >>
    /\ pc = "done"
    /\ printed = <<"unknown_command">>
    /\ NothingInvoked

\* for each script, the file names it resolves to no registered state
UnknownNames ==
    [s \in Scripts |->
        CASE s = "integration" ->
                {f \in FileUniverse :
                    ExtractStateFromFilename(Join(SCRAPE_A_GRAVE_PATH, f)) = Unknown}
          [] s = "add_processed" ->
                {f \in FileUniverse :
                    \A j \in 1..Len(states_processed) :
                        states_processed[j].abbreviation # SplitFirst(f, "_")}
          [] s = "add_all" ->
                {f \in FileUniverse :
                    \A j \in 1..Len(states_all) :
                        states_all[j].abbreviation # StateAbbrevAll(f)}]

\* the k-th candidate resolves to no registered state: "Unknown" from
\* extract_state_from_filename, no entry of the states table for its prefix,
\* or 'UNK'
ResolvesUnknown(k) ==
    CandidateName(k) \in UnknownNames[script]

\* C10: every candidate the loop has passed that resolves to no registered
\* state has had its enqueue attempt and its recorded outcome, and the
\* summary counts it
C10_UnknownStillDispatched ==
    \A k \in 1..Len(csv_files) :
        (pc \in {"loop", "run", "done"} /\ k < idx /\ ResolvesUnknown(k)) =>
            /\ Len(Enqueued) >= k /\ Enqueued[k] = CandidatePath(k)
            /\ Len(results) >= k /\ results[k].file = csv_files[k]
            /\ summary # <<>> =>
                  /\ idx > Len(csv_files)
                  /\ summary[1].total = Len(results)

\* C10 witness: mystery_export.csv was globbed by add-all-new-csvs.py, has
\* no registered prefix, was enqueued and is in the summary
C10_Witness ==
    /\ script = "add_all"
    /\ summary # <<>>
    /\ \E k \in 1..Len(csv_files) :
          /\ CandidateName(k) = MYSTERY_EXPORT
          /\ ResolvesUnknown(k)
          /\ Enqueued[k] = Join(processed_csvs_dir, MYSTERY_EXPORT)
          /\ results[k].file = csv_files[k]
    /\ summary[1].total = Len(csv_files)

\* the keys of state_patterns contained in the lower-cased stem of each name
ContainedKeys ==
    [f \in FileUniverse |->
        {k \in 1..Len(state_patterns) :
            Contains(Lower(Stem(Join(SCRAPE_A_GRAVE_PATH, f))), state_patterns[k].pattern)}]

\* the positions of the keys 'virginia' and 'westvirginia' in state_patterns
VirginiaKey ==
    CHOOSE k \in 1..Len(state_patterns) :
        state_patterns[k].pattern = <<"v","i","r","g","i","n","i","a">>

WestVirginiaKey ==
    CHOOSE k \in 1..Len(state_patterns) :
        state_patterns[k].pattern = <<"w","e","s","t","v","i","r","g","i","n","i","a">>

\* C11: every state extract_state_from_filename has computed is "Unknown"
\* exactly when no key of state_patterns is contained in the lower-cased
\* stem, and is otherwise the display name of the contained key that comes
\* first in the table; a stem that contains 'westvirginia' contains
\* 'virginia', listed before it, and resolves to Virginia
C11_FirstContainedKeyWins ==
    script = "integration" =>
        \A n \in 1..Len(resolved) :
            LET f == Basename(resolved[n].file)
                keys == ContainedKeys[f]
            IN  /\ resolved[n].state = Unknown <=> keys = {}
                /\ keys # {} =>
                      \E k \in keys :
                          /\ \A j \in keys : k <= j
                          /\ resolved[n].state = state_patterns[k].state_name
                /\ WestVirginiaKey \in keys =>
                      /\ VirginiaKey \in keys
                      /\ VirginiaKey < WestVirginiaKey
                      /\ resolved[n].state = <<"V","i","r","g","i","n","i","a">>

\* C11 witness: deaths_westvirginia_mortality.csv, whose stem contains both
\* keys, was resolved to Virginia, and a name with no key to "Unknown"
C11_Witness ==
    /\ script = "integration"
    /\ ContainedKeys[WV_BOTH] = {VirginiaKey, WestVirginiaKey}
    /\ \E n \in 1..Len(resolved) :
          /\ Basename(resolved[n].file) = WV_BOTH
          /\ resolved[n].state = state_patterns[VirginiaKey].state_name
          /\ resolved[n].state # state_patterns[WestVirginiaKey].state_name
    /\ \E n \in 1..Len(resolved) :
          /\ ContainedKeys[Basename(resolved[n].file)] = {}
          /\ resolved[n].state = Unknown
====
